---- MODULE Spec2Model ----
(***************************************************************************)
(* Retail inventory dashboard (retail_streamlit.py): the cached synthetic  *)
(* dataset generator and the filter / KPI / chart-table pipeline that the  *)
(* script recomputes on every widget interaction.                          *)
(*                                                                         *)
(* Numbers.  Integer columns (product_id, stock_level, sales) are kept as  *)
(* integers.  price, cost and revenue are amounts in whole currency units; *)
(* the cost ratio and the discount are in hundredths.  A float that may be *)
(* not-a-number (average_discount and what is computed from it) is a pair  *)
(* <<num, den>> of hundredths: den > 0 is the rational num/den, den = 0 is *)
(* NaN (the 0/0 of an empty mean).  Timestamps are seconds since           *)
(* 2024-01-01 00:00, calendar dates are days since 2024-01-01.  A string   *)
(* that is compared by order (the month label) is its sequence of          *)
(* character codes.                                                        *)
(***************************************************************************)
EXTENDS Integers, Sequences, FiniteSets, TLC

VARIABLES
    cache,              \* st.cache_data store of generate_inventory_data: n -> dataset
    n_arg,              \* the argument of the last call of generate_inventory_data
    df_inventory,       \* the dataset the pass reads
    selected_regions,   \* multiselect value
    selected_category,  \* selectbox value
    date_range,         \* date_input value: a tuple of one or two dates
    filtered_df,        \* the filtered view
    total_sales, total_revenue, average_discount, total_stock,
    previous_sales, previous_revenue, previous_discount,
    sales_delta, revenue_delta, discount_delta,
    category_sales, region_stock, sunburst_data, monthly_revenue,
    panels,             \* what each of the five chart panels showed
    status              \* "init", "done", or the exception that ended the pass

vars == <<cache, n_arg, df_inventory, selected_regions, selected_category, date_range,
          filtered_df, total_sales, total_revenue, average_discount, total_stock,
          previous_sales, previous_revenue, previous_discount,
          sales_delta, revenue_delta, discount_delta,
          category_sales, region_stock, sunburst_data, monthly_revenue,
          panels, status>>

(***************************************************************************)
(* Bounds and program constants                                            *)
(***************************************************************************)
\* rows of the dataset the script generates (the default n, 5000 in the source)
DefaultN == 3

SecondsPerDay == 86400

categories == <<"Electronics", "Clothing", "Furniture", "Toys", "Groceries">>
regions == <<"North", "South", "East", "West">>

\* the order of Python's string comparison on the labels above
SortedCategories == <<"Clothing", "Electronics", "Furniture", "Groceries", "Toys">>
SortedRegions == <<"East", "North", "South", "West">>

Min(a, b) == IF a < b THEN a ELSE b

Range(s) == {s[i] : i \in DOMAIN s}

RECURSIVE SeqSum(_)
SeqSum(s) == IF Len(s) = 0 THEN 0 ELSE Head(s) + SeqSum(Tail(s))

(***************************************************************************)
(* numpy.random: the values one draw can return                            *)
(***************************************************************************)
\* np.random.randint(low, high): an integer in [low, high)
randint(low, high) == low .. (high - 1)

\* np.random.choice(a): an element of a
choice(a) == Range(a)

\* np.random.uniform(low, high): x is a value of the half-open interval
uniform(x, low, high) == low <= x /\ x < high

(***************************************************************************)
(* Month label: df['date'].dt.to_period('M').astype(str)                   *)
(***************************************************************************)
DaysInMonth2024 == <<31, 29, 31, 30, 31, 30, 31, 31, 30, 31, 30, 31>>

RECURSIVE MonthOfDay(_, _)
MonthOfDay(day, m) ==
    IF m >= 12 \/ day < DaysInMonth2024[m] THEN m
    ELSE MonthOfDay(day - DaysInMonth2024[m], m + 1)

\* the code of a decimal digit
Digit(k) == 48 + k

\* "YYYY-MM" of a timestamp of year 2024, as character codes ("-" is 45)
to_period_M_str(ts) ==
    LET m == MonthOfDay(ts \div SecondsPerDay, 1)
    IN  <<Digit(2), Digit(0), Digit(2), Digit(4), 45, Digit(m \div 10), Digit(m % 10)>>

\* Python's < on two strings: lexicographic on character codes
RECURSIVE StrLess(_, _)
StrLess(a, b) ==
    IF Len(b) = 0 THEN FALSE
    ELSE IF Len(a) = 0 THEN TRUE
    ELSE IF Head(a) # Head(b) THEN Head(a) < Head(b)
    ELSE StrLess(Tail(a), Tail(b))

(***************************************************************************)
(* generate_inventory_data                                                 *)
(***************************************************************************)
\* a draw is what the random source returned for one loop iteration; rng is
\* the set of draws considered, and the source's ranges decide which of them
\* the calls can return
\* variant: the upper end taken as inclusive and uncapped
SalesHighMutant(stock_level) == stock_level + 2

\* the exclusive upper end of the sales draw (line 31)
SalesHigh(stock_level) == Min(stock_level + 1, 100)

DrawOK(d) ==
    /\ d.category \in choice(categories)
    /\ d.region \in choice(regions)
    /\ d.days \in randint(0, 180)
    /\ d.stock_level \in randint(0, 500)
    /\ d.sales \in randint(0, SalesHigh(d.stock_level))
    /\ uniform(d.price, 10, 1000)
    /\ uniform(d.ratio, 40, 60)
    /\ uniform(d.discount, 0, 30)

\* one loop iteration (lines 25-48): the record appended for index i
MakeRecord(i, d) ==
    LET cost == (d.price * d.ratio) \div 100
    IN  [product_id |-> i + 1,
         category |-> d.category,
         region |-> d.region,
         date |-> d.days * SecondsPerDay,
         stock_level |-> d.stock_level,
         sales |-> d.sales,
         price |-> d.price,
         cost |-> cost,
         revenue |-> d.sales * (d.price - cost),
         discount |-> d.discount]

\* the lists of records the loop over range(n) can build
RecordLists(n, rng) ==
    IF n <= 0 THEN {<<>>}
    ELSE LET ok == {d \in rng : DrawOK(d)}
         IN  {[k \in 1..n |-> MakeRecord(k - 1, f[k])] : f \in [1..n -> ok]}

\* lines 50-52: the frame with its month column; a frame built from an empty
\* list has no columns, and df['date'] raises KeyError
WithMonth(records) ==
    IF Len(records) = 0
    THEN [error |-> "KeyError", df |-> <<>>]
    ELSE [error |-> "none",
          df |-> [k \in 1..Len(records) |->
                    [product_id |-> records[k].product_id,
                     category |-> records[k].category,
                     region |-> records[k].region,
                     date |-> records[k].date,
                     stock_level |-> records[k].stock_level,
                     sales |-> records[k].sales,
                     price |-> records[k].price,
                     cost |-> records[k].cost,
                     revenue |-> records[k].revenue,
                     discount |-> records[k].discount,
                     month |-> to_period_M_str(records[k].date)]]]

\* the undecorated function body: every result a call with n can have
GenerateBody(n, rng) == {WithMonth(records) : records \in RecordLists(n, rng)}

\* variant: the store is never consulted, every call regenerates
CacheLookupMutant(n, store) == FALSE

\* st.cache_data: a call whose argument is in the store returns the stored value
CacheLookup(n, store) == n \in DOMAIN store

\* the decorated function (line 17): results, each with the store it leaves
generate_inventory_data(n, rng) ==
    IF CacheLookup(n, cache)
    THEN {[error |-> "none", df |-> cache[n], store |-> cache]}
    ELSE {[error |-> r.error, df |-> r.df,
           store |-> IF r.error = "none" THEN (n :> r.df) @@ cache ELSE cache]
            : r \in GenerateBody(n, rng)}

(***************************************************************************)
(* Floats that may be NaN: <<num, den>>, den = 0 is NaN                    *)
(***************************************************************************)
NaN == <<0, 0>>

IsNaN(x) == x[2] = 0

FromInt(k) == <<k, 1>>

\* x - y; NaN if either is
FSub(x, y) ==
    IF IsNaN(x) \/ IsNaN(y) THEN NaN
    ELSE <<x[1] * y[2] - y[1] * x[2], x[2] * y[2]>>

\* x > y; every comparison with NaN is false
FGreater(x, y) == ~IsNaN(x) /\ ~IsNaN(y) /\ x[1] * y[2] > y[1] * x[2]

FEqual(x, y) == ~IsNaN(x) /\ ~IsNaN(y) /\ x[1] * y[2] = y[1] * x[2]

\* variant: no clamp at the first argument
PyMaxMutant(a, b) == b

\* Python's max(a, b): b if b > a, else a
PyMax(a, b) == IF b > a THEN b ELSE a

PyMaxFloat(a, b) == IF FGreater(b, a) THEN b ELSE a

(***************************************************************************)
(* Sidebar widgets (lines 60-84)                                           *)
(***************************************************************************)
\* Series.unique() of a label column, as a set
UniqueRegions(df) == {df[k].region : k \in DOMAIN df}

UniqueCategories(df) == {df[k].category : k \in DOMAIN df}

\* df['date'].min() and .max()
MinDate(df) == CHOOSE t \in {df[k].date : k \in DOMAIN df} :
                  \A k \in DOMAIN df : t <= df[k].date

MaxDate(df) == CHOOSE t \in {df[k].date : k \in DOMAIN df} :
                  \A k \in DOMAIN df : t >= df[k].date

\* the calendar date of a timestamp, as date_input takes its bounds
ToDate(ts) == ts \div SecondsPerDay

\* pd.Timestamp(date): midnight of that date
Timestamp(date) == date * SecondsPerDay

\* the widget values of a first run: every region, "All", [min_date, max_date]
DefaultSelection(df) ==
    [regions |-> UniqueRegions(df),
     category |-> "All",
     date_range |-> <<ToDate(MinDate(df)), ToDate(MaxDate(df))>>]

\* the widget values a later run can see.  ui limits the values tried:
\* ui.regions and ui.categories are the labels the user toggles, ui.dates
\* the days clicked besides the two ends of the range; a date_range of one
\* date is a range selection with only its first date clicked
Selections(df, ui) ==
    LET picks == {ToDate(MinDate(df)), ToDate(MaxDate(df))} \cup
                 {d \in ui.dates : ToDate(MinDate(df)) <= d /\ d <= ToDate(MaxDate(df))}
    IN  {[regions |-> rs, category |-> c, date_range |-> dr] :
            rs \in SUBSET (UniqueRegions(df) \cap ui.regions),
            c \in {"All"} \cup (UniqueCategories(df) \cap ui.categories),
            dr \in {<<a, b>> : a \in picks, b \in picks} \cup
                   {<<a>> : a \in picks \cap ui.pending}}

(***************************************************************************)
(* 4. Apply filters (lines 87-94)                                          *)
(***************************************************************************)
\* variant: the end date excluded
EndTimestampMutant(end_date) == end_date * SecondsPerDay - 1

\* the right-hand side of the upper date comparison (line 90)
EndTimestamp(end_date) == Timestamp(end_date)

\* variant: the region and date conditions joined by | instead of &
ApplyFiltersMutant(df, sel_regions, sel_category, start_date, end_date) ==
    LET Mask(row) == \/ row.region \in sel_regions
                     \/ /\ row.date >= start_date * SecondsPerDay
                        /\ row.date <= end_date * SecondsPerDay
        IsCategory(row) == row.category = sel_category
        by_region_date == SelectSeq(df, Mask)
    IN  IF sel_category # "All" THEN SelectSeq(by_region_date, IsCategory)
        ELSE by_region_date

ApplyFilters(df, sel_regions, sel_category, start_date, end_date) ==
    LET Mask(row) == /\ row.region \in sel_regions
                     /\ row.date >= Timestamp(start_date)
                     /\ row.date <= EndTimestamp(end_date)
        IsCategory(row) == row.category = sel_category
        by_region_date == SelectSeq(df, Mask)
    IN  IF sel_category # "All" THEN SelectSeq(by_region_date, IsCategory)
        ELSE by_region_date

(***************************************************************************)
(* 6. KPIs (lines 104-117)                                                 *)
(***************************************************************************)
SumSales(view) == SeqSum([k \in 1..Len(view) |-> view[k].sales])

SumRevenue(view) == SeqSum([k \in 1..Len(view) |-> view[k].revenue])

SumStock(view) == SeqSum([k \in 1..Len(view) |-> view[k].stock_level])

\* Series.mean(): the sum over the count, NaN on an empty series
MeanDiscount(view) == <<SeqSum([k \in 1..Len(view) |-> view[k].discount]), Len(view)>>

\* the three draws of lines 110-112 the ranges allow
KpiDrawOK(r) ==
    /\ r.sales \in randint(100, 1000)
    /\ r.revenue \in randint(1000, 10000)
    /\ uniform(r.discount, -5, 5)

(***************************************************************************)
(* 10-14. Chart tables                                                     *)
(***************************************************************************)
\* variant: count() in place of sum()
CategorySalesMutant(view) ==
    LET Present(c) == \E k \in DOMAIN view : view[k].category = c
        Count(c) == LET Of(row) == row.category = c IN Len(SelectSeq(view, Of))
        keys == SelectSeq(SortedCategories, Present)
    IN  [k \in 1..Len(keys) |-> [category |-> keys[k], sales |-> Count(keys[k])]]

\* groupby('category')['sales'].sum().reset_index(): a row per category
\* present, in sorted key order (line 177)
CategorySales(view) ==
    LET Present(c) == \E k \in DOMAIN view : view[k].category = c
        Total(c) == LET Of(row) == row.category = c IN SumSales(SelectSeq(view, Of))
        keys == SelectSeq(SortedCategories, Present)
    IN  [k \in 1..Len(keys) |-> [category |-> keys[k], sales |-> Total(keys[k])]]

\* groupby('region')['stock_level'].sum().reset_index() (line 196)
RegionStock(view) ==
    LET Present(r) == \E k \in DOMAIN view : view[k].region = r
        Total(r) == LET Of(row) == row.region = r IN SumStock(SelectSeq(view, Of))
        keys == SelectSeq(SortedRegions, Present)
    IN  [k \in 1..Len(keys) |-> [region |-> keys[k], stock_level |-> Total(keys[k])]]

\* every (category, region) pair in sorted order
SortedPairs ==
    [k \in 1..(Len(SortedCategories) * Len(SortedRegions)) |->
        <<SortedCategories[((k - 1) \div Len(SortedRegions)) + 1],
          SortedRegions[((k - 1) % Len(SortedRegions)) + 1]>>]

\* groupby(['category','region']).agg({'revenue':'sum'}).reset_index() (line 231)
CategoryRegionRevenue(view) ==
    LET Of(row, p) == row.category = p[1] /\ row.region = p[2]
        Present(p) == \E k \in DOMAIN view : Of(view[k], p)
        Total(p) == LET OfP(row) == Of(row, p) IN SumRevenue(SelectSeq(view, OfP))
        keys == SelectSeq(SortedPairs, Present)
    IN  [k \in 1..Len(keys) |->
            [category |-> keys[k][1], region |-> keys[k][2], revenue |-> Total(keys[k])]]

\* variant: >= 0 in place of > 0
PositiveRevenueMutant(table) ==
    LET Kept(g) == g.revenue >= 0 IN SelectSeq(table, Kept)

\* sunburst_data[sunburst_data['revenue'] > 0] (line 232)
PositiveRevenue(table) ==
    LET Kept(g) == g.revenue > 0 IN SelectSeq(table, Kept)

\* groupby('month')['revenue'].sum().reset_index(): a row per month label
\* present, in sorted key order (line 252)
GroupByMonth(view) ==
    LET labels == {view[k].month : k \in DOMAIN view}
        Total(m) == LET Of(row) == row.month = m IN SumRevenue(SelectSeq(view, Of))
        KeyAt(p) == CHOOSE m \in labels :
                       Cardinality({x \in labels : StrLess(x, m)}) = p - 1
    IN  [p \in 1..Cardinality(labels) |-> [month |-> KeyAt(p), revenue |-> Total(KeyAt(p))]]

\* DataFrame.sort_values('month'): ascending and stable (line 253)
SortValuesMonth(table) ==
    LET Before(i, j) == \/ StrLess(table[i].month, table[j].month)
                        \/ (table[i].month = table[j].month /\ i < j)
        At(p) == CHOOSE i \in DOMAIN table :
                    Cardinality({j \in DOMAIN table : Before(j, i)}) = p - 1
    IN  [p \in 1..Len(table) |-> table[At(p)]]

\* variant: groups in order of first appearance (sort=False, no sort_values)
MonthlyRevenueMutant(view) ==
    LET labels == [k \in 1..Len(view) |-> view[k].month]
        First(k) == \A j \in 1..(k - 1) : labels[j] # labels[k]
        firsts == SelectSeq([k \in 1..Len(view) |-> k], First)
        Total(m) == LET Of(row) == row.month = m IN SumRevenue(SelectSeq(view, Of))
    IN  [p \in 1..Len(firsts) |->
            [month |-> labels[firsts[p]], revenue |-> Total(labels[firsts[p]])]]

\* lines 252-253
MonthlyRevenue(view) == SortValuesMonth(GroupByMonth(view))

(***************************************************************************)
(* The script: one pass from line 55 to the end                            *)
(***************************************************************************)
\* a run that ends before the filter has a value (an exception, or a call of
\* the generator alone) leaves everything from the filtered view on unset
Stopped(outcome) ==
    /\ status' = outcome
    /\ filtered_df' = <<>>
    /\ total_sales' = 0 /\ total_revenue' = 0 /\ total_stock' = 0
    /\ average_discount' = NaN
    /\ previous_sales' = 0 /\ previous_revenue' = 0 /\ previous_discount' = NaN
    /\ sales_delta' = 0 /\ revenue_delta' = 0 /\ discount_delta' = NaN
    /\ category_sales' = <<>> /\ region_stock' = <<>>
    /\ sunburst_data' = <<>> /\ monthly_revenue' = <<>>
    /\ panels' = <<>>

\* sections 6-14 on the filtered view, with the three draws r of lines 110-112
Dashboard(view, r) ==
    /\ filtered_df' = view
    /\ total_sales' = SumSales(view)
    /\ total_revenue' = SumRevenue(view)
    /\ average_discount' = MeanDiscount(view)
    /\ total_stock' = SumStock(view)
    /\ previous_sales' = PyMax(0, total_sales' - r.sales)
    /\ previous_revenue' = PyMax(0, total_revenue' - r.revenue)
    /\ previous_discount' = PyMaxFloat(FromInt(0), FSub(average_discount', FromInt(r.discount)))
    /\ sales_delta' = total_sales' - previous_sales'
    /\ revenue_delta' = total_revenue' - previous_revenue'
    /\ discount_delta' = FSub(average_discount', previous_discount')
    /\ IF Len(view) # 0
       THEN /\ category_sales' = CategorySales(view)
            /\ region_stock' = RegionStock(view)
            /\ sunburst_data' = PositiveRevenue(CategoryRegionRevenue(view))
            /\ monthly_revenue' = MonthlyRevenue(view)
            /\ panels' = <<"chart", "chart", "chart",
                           IF Len(sunburst_data') # 0 THEN "chart" ELSE "no_revenue",
                           "chart">>
       ELSE /\ category_sales' = <<>> /\ region_stock' = <<>>
            /\ sunburst_data' = <<>> /\ monthly_revenue' = <<>>
            /\ panels' = <<"no_data", "no_data", "no_data", "no_data", "no_data">>
    /\ status' = "done"

\* the pass on the dataset the call of line 55 returned, with the widget
\* values sel.  A date_range that is not a pair is assigned whole to
\* start_date and end_date (line 82), and pd.Timestamp of a tuple raises
Pass(g, sel, r) ==
    /\ cache' = g.store
    /\ n_arg' = DefaultN
    /\ df_inventory' = g.df
    /\ selected_regions' = sel.regions
    /\ selected_category' = sel.category
    /\ date_range' = sel.date_range
    /\ IF Len(sel.date_range) = 2
       THEN Dashboard(ApplyFilters(g.df, sel.regions, sel.category,
                                   sel.date_range[1], sel.date_range[2]), r)
       ELSE Stopped("TypeError")

\* the first run of a session: the widgets have their default values
FirstRun(P) ==
    /\ status = "init"
    /\ \E g \in generate_inventory_data(DefaultN, P.rng) :
         \E r \in {x \in P.kpi : KpiDrawOK(x)} :
            Pass(g, DefaultSelection(g.df), r)

\* a rerun after a widget interaction
Rerun(P) ==
    /\ status # "init"
    /\ \E g \in generate_inventory_data(DefaultN, P.rng) :
         \E sel \in Selections(g.df, P.ui) :
            \E r \in {x \in P.kpi : KpiDrawOK(x)} :
               Pass(g, sel, r)

Init ==
    /\ cache = <<>>
    /\ n_arg = DefaultN
    /\ df_inventory = <<>>
    /\ selected_regions = {}
    /\ selected_category = "All"
    /\ date_range = <<>>
    /\ filtered_df = <<>>
    /\ total_sales = 0 /\ total_revenue = 0 /\ total_stock = 0
    /\ average_discount = NaN
    /\ previous_sales = 0 /\ previous_revenue = 0 /\ previous_discount = NaN
    /\ sales_delta = 0 /\ revenue_delta = 0 /\ discount_delta = NaN
    /\ category_sales = <<>> /\ region_stock = <<>>
    /\ sunburst_data = <<>> /\ monthly_revenue = <<>>
    /\ panels = <<>>
    /\ status = "init"

(***************************************************************************)
(* Filter session: the draws hold the three records of the filter example, *)
(* the user toggles every region and category and clicks any date          *)
(***************************************************************************)
Draw(c, g, d, st, s, p, q, di) ==
    [category |-> c, region |-> g, days |-> d, stock_level |-> st, sales |-> s,
     price |-> p, ratio |-> q, discount |-> di]

FilterSession ==
    [rng |-> {Draw("Electronics", "North", 0, 10, 10, 100, 50, 10),
              Draw("Electronics", "South", 31, 10, 5, 100, 50, 10),
              Draw("Toys", "North", 60, 2, 2, 100, 50, 10),
              Draw("Toys", "South", 31, 0, 0, 100, 50, 10)},
     ui |-> [regions |-> Range(regions), categories |-> Range(categories),
             dates |-> {}, pending |-> {0}],
     kpi |-> {[sales |-> 100, revenue |-> 1000, discount |-> 0]}]

Next == FirstRun(FilterSession) \/ Rerun(FilterSession)

Spec == Init /\ [][Next]_vars

(***************************************************************************)
(* KPI session: large and zero sales, three discounts, every draw range of *)
(* lines 110-112 at both ends; the user toggles regions only               *)
(***************************************************************************)
KpiSession ==
    [rng |-> {Draw("Electronics", "North", 0, 499, 99, 100, 50, 10),
              Draw("Toys", "South", 100, 120, 60, 200, 40, 29),
              Draw("Toys", "North", 179, 0, 0, 500, 59, 0)},
     ui |-> [regions |-> Range(regions), categories |-> {},
             dates |-> {}, pending |-> {}],
     kpi |-> {[sales |-> 100, revenue |-> 1000, discount |-> -5],
              [sales |-> 150, revenue |-> 9999, discount |-> 4],
              [sales |-> 999, revenue |-> 5000, discount |-> 0]}]

KpiNext == FirstRun(KpiSession) \/ Rerun(KpiSession)

KpiSpec == Init /\ [][KpiNext]_vars

(***************************************************************************)
(* Generator calls: generate_inventory_data(n) for the arguments of        *)
(* GenArgs, with every stock level and every sales value up to 110 drawn   *)
(***************************************************************************)
GenArgs == {-1, 0, 1}

GenSession ==
    [rng |-> {Draw("Toys", "North", 0, st, s, 100, 50, 10) : st \in 0..499, s \in 0..110}]

\* df = generate_inventory_data(n)
Call(n, P) ==
    \E g \in generate_inventory_data(n, P.rng) :
        /\ cache' = g.store
        /\ n_arg' = n
        /\ df_inventory' = g.df
        /\ UNCHANGED <<selected_regions, selected_category, date_range>>
        /\ Stopped(IF g.error = "none" THEN "returned" ELSE g.error)

GenNext == \E n \in GenArgs : Call(n, GenSession)

GenSpec == Init /\ [][GenNext]_vars

(***************************************************************************)
(* Properties                                                              *)
(***************************************************************************)
Done == status = "done"

\* the selection of the pass accepts the row
RowMatches(row) ==
    /\ row.region \in selected_regions
    /\ date_range[1] <= ToDate(row.date)
    /\ ToDate(row.date) <= date_range[2]
    /\ (selected_category = "All" \/ row.category = selected_category)

\* the dataset is the three records of the filter example
IsFilterExample ==
    /\ Len(df_inventory) = 3
    /\ <<df_inventory[1].category, df_inventory[1].region, df_inventory[1].sales>>
         = <<"Electronics", "North", 10>>
    /\ <<df_inventory[2].category, df_inventory[2].region, df_inventory[2].sales>>
         = <<"Electronics", "South", 5>>
    /\ <<df_inventory[3].category, df_inventory[3].region, df_inventory[3].sales>>
         = <<"Toys", "North", 2>>

FilteredToNorth ==
    /\ selected_regions = {"North"}
    /\ selected_category = "All"
    /\ date_range = DefaultSelection(df_inventory).date_range

\* C1: the filtered view holds exactly the dataset rows whose region is
\* selected, whose date lies in [start_date, end_date] with both ends
\* included, and whose category is the chosen one unless the choice is "All":
\* none missing, none extra, none twice; the three example records filtered
\* to {North} give two rows with total sales 12.
C1_FilterExact ==
    Done =>
        /\ \A k \in DOMAIN df_inventory :
              RowMatches(df_inventory[k]) <=>
                 \E j \in DOMAIN filtered_df : filtered_df[j] = df_inventory[k]
        /\ Len(filtered_df) =
              Cardinality({k \in DOMAIN df_inventory : RowMatches(df_inventory[k])})
        /\ (IsFilterExample /\ FilteredToNorth) =>
              (Len(filtered_df) = 2 /\ total_sales = 12)

C1_Witness == Done /\ IsFilterExample /\ FilteredToNorth /\ Len(filtered_df) = 2

\* C2: once the first call has stored the dataset, every later pass reads a
\* dataset equal row for row to it: the call returns the stored value, and
\* no pass changes the store or a row of what it read.
C2_DatasetStable ==
    [][(DefaultN \in DOMAIN cache) =>
          /\ cache' = cache
          /\ df_inventory' = cache[DefaultN]
          /\ df_inventory' = df_inventory]_vars

\* a later pass, with a selection a first run does not have, read the stored dataset
C2_Witness ==
    /\ Done
    /\ selected_regions # UniqueRegions(df_inventory)
    /\ Len(filtered_df) # 0
    /\ df_inventory = cache[DefaultN]

\* C3: every generated record has 0 <= sales <= stock_level and sales <= 99;
\* for every stock_level of [0, 499] the sales draw ranges over exactly
\* [0, min(stock_level, 99)], so a record with stock_level 0 is generated
\* and has sales 0.
C3_SalesWithinStock ==
    /\ \A k \in DOMAIN df_inventory :
          /\ 0 <= df_inventory[k].sales
          /\ df_inventory[k].sales <= df_inventory[k].stock_level
          /\ df_inventory[k].sales <= 99
          /\ (df_inventory[k].stock_level = 0 => df_inventory[k].sales = 0)
    /\ \A st \in randint(0, 500) : SalesHigh(st) - 1 = Min(st, 99)

C3_Witness ==
    /\ status = "returned"
    /\ df_inventory[1].stock_level = 0
    /\ df_inventory[1].sales = 0

\* C4 (as claimed): on an empty filtered view the KPI step completes with
\* total_sales, total_revenue and total_stock 0 and average_discount 0, and
\* no not-a-number value reaches the delta computation.
C4_EmptyViewKpisDefined ==
    (Done /\ Len(filtered_df) = 0) =>
        /\ total_sales = 0 /\ total_revenue = 0 /\ total_stock = 0
        /\ FEqual(average_discount, FromInt(0))
        /\ ~IsNaN(discount_delta)

\* C5: a selection with no region, and a selection whose end date precedes
\* its start date, each give an empty view and a completed pass in which
\* each of the five chart panels takes its no-data branch and no chart table
\* is computed.
C5_FilterTotal ==
    (status # "init" /\ Len(date_range) = 2
        /\ (selected_regions = {} \/ date_range[2] < date_range[1])) =>
        /\ Done
        /\ filtered_df = <<>>
        /\ panels = <<"no_data", "no_data", "no_data", "no_data", "no_data">>
        /\ category_sales = <<>> /\ region_stock = <<>>
        /\ sunburst_data = <<>> /\ monthly_revenue = <<>>

C5_Witness ==
    /\ Done
    /\ selected_regions = UniqueRegions(df_inventory)
    /\ selected_category # "All"
    /\ date_range[2] < date_range[1]
    /\ filtered_df = <<>>

C5_WitnessNoRegion ==
    /\ Done
    /\ selected_regions = {}
    /\ date_range[1] < date_range[2]
    /\ filtered_df = <<>>

\* C6 (as claimed): a call with n <= 0 fails with InvalidArgument.
C6_InvalidArgument ==
    (status # "init" /\ n_arg <= 0) => status = "InvalidArgument"

\* C7: on a non-empty view the per-category sales sums add up to total_sales
\* and the per-region stock sums add up to total_stock, with one group per
\* category (region) present in the view and none for an absent one.
C7_GroupSumsCoverTotals ==
    (Done /\ Len(filtered_df) # 0) =>
        /\ SeqSum([g \in 1..Len(category_sales) |-> category_sales[g].sales]) = total_sales
        /\ SeqSum([g \in 1..Len(region_stock) |-> region_stock[g].stock_level]) = total_stock
        /\ {category_sales[g].category : g \in DOMAIN category_sales}
              = UniqueCategories(filtered_df)
        /\ Len(category_sales) = Cardinality(UniqueCategories(filtered_df))
        /\ {region_stock[g].region : g \in DOMAIN region_stock}
              = UniqueRegions(filtered_df)
        /\ Len(region_stock) = Cardinality(UniqueRegions(filtered_df))

C7_Witness ==
    /\ Done
    /\ Len(category_sales) = 2 /\ Len(region_stock) = 2
    /\ Len(filtered_df) = 3
    /\ total_sales = 17

\* the revenue of the view rows of month label m, row by row
RevenueOfMonth(m) ==
    SeqSum([k \in 1..Len(filtered_df) |->
               IF filtered_df[k].month = m THEN filtered_df[k].revenue ELSE 0])

\* C8: on a non-empty view monthly_revenue has one row per month label
\* present, each with the summed revenue of that month's rows, in strictly
\* ascending label order, which is chronological order, whatever the order
\* of the rows in the view.
C8_MonthlyRevenueSorted ==
    (Done /\ Len(filtered_df) # 0) =>
        /\ {monthly_revenue[p].month : p \in DOMAIN monthly_revenue}
              = {filtered_df[k].month : k \in DOMAIN filtered_df}
        /\ \A p \in DOMAIN monthly_revenue :
              monthly_revenue[p].revenue = RevenueOfMonth(monthly_revenue[p].month)
        /\ \A p, q \in DOMAIN monthly_revenue :
              p < q => StrLess(monthly_revenue[p].month, monthly_revenue[q].month)
        /\ \A j, k \in DOMAIN filtered_df :
              StrLess(filtered_df[j].month, filtered_df[k].month)
                 => filtered_df[j].date < filtered_df[k].date

\* the view lists March, January, February
C8_Witness ==
    /\ Done
    /\ Len(filtered_df) = 3
    /\ StrLess(filtered_df[2].month, filtered_df[3].month)
    /\ StrLess(filtered_df[3].month, filtered_df[1].month)
    /\ Len(monthly_revenue) = 3

\* the revenue of the view rows of category c and region g, row by row
RevenueOfPair(c, g) ==
    SeqSum([k \in 1..Len(filtered_df) |->
               IF filtered_df[k].category = c /\ filtered_df[k].region = g
               THEN filtered_df[k].revenue ELSE 0])

\* C9: on a non-empty view the sunburst table holds exactly the (category,
\* region) pairs of the view whose summed revenue is > 0, each once and with
\* that sum; when every pair sums to 0 the table is empty and the panel
\* shows the no-revenue warning instead of a chart.
C9_SunburstPositivePairs ==
    (Done /\ Len(filtered_df) # 0) =>
        /\ \A c \in Range(categories), g \in Range(regions) :
              LET rows == {p \in DOMAIN sunburst_data :
                             sunburst_data[p].category = c /\ sunburst_data[p].region = g}
              IN  IF RevenueOfPair(c, g) > 0
                  THEN /\ Cardinality(rows) = 1
                       /\ \A p \in rows : sunburst_data[p].revenue = RevenueOfPair(c, g)
                  ELSE rows = {}
        /\ panels[4] = (IF Len(sunburst_data) = 0 THEN "no_revenue" ELSE "chart")
        /\ (\A k \in DOMAIN filtered_df : filtered_df[k].sales = 0) =>
              (sunburst_data = <<>> /\ panels[4] = "no_revenue")

C9_Witness ==
    /\ Done
    /\ Len(filtered_df) # 0
    /\ \A k \in DOMAIN filtered_df : filtered_df[k].sales = 0
    /\ panels[4] = "no_revenue"

C9_WitnessMixed ==
    /\ Done
    /\ Len(sunburst_data) = 2
    /\ \E k \in DOMAIN filtered_df : filtered_df[k].revenue = 0

\* C10: in every pass previous_sales = max(0, total_sales - r) for a drawn r
\* of [100, 999] is never negative, and sales_delta equals min(total_sales, r):
\* never negative, at most total_sales, at most 999, and 0 on an empty view.
C10_SalesDelta ==
    Done =>
        /\ previous_sales >= 0
        /\ \E r \in 100..999 :
              /\ previous_sales = (IF total_sales - r > 0 THEN total_sales - r ELSE 0)
              /\ sales_delta = Min(total_sales, r)
        /\ 0 <= sales_delta /\ sales_delta <= total_sales /\ sales_delta <= 999
        /\ (Len(filtered_df) = 0 => sales_delta = 0)

C10_Witness ==
    /\ Done
    /\ total_sales > 150
    /\ sales_delta = 150
    /\ previous_sales = total_sales - 150

C10_WitnessEmpty == Done /\ Len(filtered_df) = 0 /\ sales_delta = 0

====
